---- MODULE Spec2Model ----
(***************************************************************************)
(* epicshop/fix.js: the workshop maintenance script.  It discovers the     *)
(* example and exercise apps, rewrites the `name` of every package.json    *)
(* (updatePkgNames) and then copies each solution's tests directory into   *)
(* the matching problem app (copyTestFiles).                               *)
(*                                                                         *)
(* Strings are sequences of tokens.  A token is a run of characters that   *)
(* the script never looks inside: "/", "\\", "problem", "solution",        *)
(* "__sep__" and name fragments that contain none of these.  The file      *)
(* system is a function from absolute paths to nodes.                      *)
(***************************************************************************)
EXTENDS Integers, Sequences, FiniteSets, TLC

VARIABLES
    fs,               \* the file system: absolute path |-> node
    pc,               \* position in the script
    outcome,          \* "running", "ok" (exit 0) or "error" (uncaught rejection)
    run,              \* number of the current run of the script
    examples,         \* fix.js:14
    exercises,        \* fix.js:17
    exerciseApps,     \* fix.js:20
    appsWithPkgJson,  \* fix.js:36
    i,                \* loop index of updatePkgNames
    j,                \* loop index of copyTestFiles
    console,          \* the lines written by console.log, over all runs
    log               \* file-system operations of the current run, in order

vars == <<fs, pc, outcome, run, examples, exercises, exerciseApps,
          appsWithPkgJson, i, j, console, log>>

\* Number of successive runs of the script that are explored.
MaxRuns == 2
\* Longest member list of a package.json object that Init draws.
MaxFields == 2

----------------------------------------------------------------------------
\* Strings

Min(S) == CHOOSE x \in S : \A y \in S : x <= y

\* String.prototype.indexOf, 1-based; 0 when pat does not occur.
IndexOf(s, pat) ==
    LET I == {k \in 1..(Len(s) - Len(pat) + 1) : SubSeq(s, k, k + Len(pat) - 1) = pat}
    IN  IF I = {} THEN 0 ELSE Min(I)

\* String.prototype.includes
StrIncludes(s, pat) == IndexOf(s, pat) # 0

\* String.prototype.replace with a string pattern: the first occurrence only.
StrReplace(s, pat, rep) ==
    LET k == IndexOf(s, pat)
    IN  IF k = 0 THEN s
        ELSE SubSeq(s, 1, k - 1) \o rep \o SubSeq(s, k + Len(pat), Len(s))

\* s.replace(/\\|\//g, '__sep__'): every slash and every backslash.
ReplaceSeparators(s) ==
    [k \in 1..Len(s) |-> IF s[k] \in {"\\", "/"} THEN "__sep__" ELSE s[k]]

\* /(problem|solution)/.test(dir)
IsVariantName(dir) == StrIncludes(dir, <<"problem">>) \/ StrIncludes(dir, <<"solution">>)

StartsWith(s, p) == Len(p) <= Len(s) /\ SubSeq(s, 1, Len(p)) = p

\* path.sep on POSIX
sep == <<"/">>

\* path.join(a, b) for a normalised a and a relative b without dots
pathJoin(a, b) == a \o sep \o b

\* path.dirname for a path with at least one separator
RECURSIVE LastSep(_)
LastSep(p) == IF p = <<>> THEN 0
              ELSE IF p[Len(p)] = "/" THEN Len(p)
              ELSE LastSep(SubSeq(p, 1, Len(p) - 1))
dirname(p) == SubSeq(p, 1, LastSep(p) - 1)
basename(p) == SubSeq(p, LastSep(p) + 1, Len(p))

\* here('..'): the directory above epicshop/
workshopRoot == <<"/", "w">>
\* here('../' + p)
here(p) == pathJoin(workshopRoot, p)

----------------------------------------------------------------------------
\* File system

Dir == [type |-> "dir"]
File(data) == [type |-> "file", data |-> data]

Under(f, p) == {q \in DOMAIN f : q = p \/ StartsWith(q, p \o sep)}

\* the tree at p: relative suffix |-> node
Subtree(f, p) ==
    [s \in {SubSeq(q, Len(p) + 1, Len(q)) : q \in Under(f, p)} |-> f[p \o s]]

\* exists(p), fix.js:96
exists(f, p) == IF p = <<>> THEN FALSE ELSE p \in DOMAIN f

\* fs.statSync(p).isDirectory()
isDirectory(f, p) == f[p].type = "dir"

\* the names fs.promises.readdir(dir) returns, in no particular order
Children(f, dir) ==
    {SubSeq(q, Len(dir) + 2, Len(q)) :
        q \in {q \in DOMAIN f : /\ StartsWith(q, dir \o sep)
                                /\ Len(q) > Len(dir) + 1
                                /\ \A k \in (Len(dir) + 2)..Len(q) : q[k] # "/"}}

\* readDir(dir), fix.js:106: the names of an existing directory, else none
readDir(f, dir) == IF exists(f, dir) THEN Children(f, dir) ELSE {}

\* fs.promises.rm(p, {recursive: true, force: true})
rm(f, p) == [q \in DOMAIN f \ Under(f, p) |-> f[q]]

\* fs.promises.cp(src, dst, {recursive: true})
cp(f, src, dst) ==
    LET t == Subtree(f, src)
        new == {dst \o s : s \in DOMAIN t}
    IN  [q \in DOMAIN f \cup new |->
            IF q \in new THEN t[SubSeq(q, Len(dst) + 1, Len(q))] ELSE f[q]]

----------------------------------------------------------------------------
\* JSON.  The text of a package.json is its top-level kind, its layout
\* (indentation unit, number of trailing newlines) and, for an object, its
\* members in textual order (a key may be repeated).  A parsed value is the
\* kind, the own enumerable members in insertion order and, for an array, the
\* non-index properties set on it, which JSON.stringify never writes.

\* JSON.parse throws a SyntaxError on this text
IsSyntaxError(text) == text.kind = "invalid"

\* obj[key] = value on a plain object: an existing key keeps its place
DefineProperty(members, key, value) ==
    IF \E k \in 1..Len(members) : members[k][1] = key
    THEN [k \in 1..Len(members) |->
            IF members[k][1] = key THEN <<key, value>> ELSE members[k]]
    ELSE Append(members, <<key, value>>)

RECURSIVE ParseMembers(_, _)
ParseMembers(textMembers, acc) ==
    IF textMembers = <<>> THEN acc
    ELSE ParseMembers(Tail(textMembers),
                      DefineProperty(acc, Head(textMembers)[1], Head(textMembers)[2]))

\* JSON.parse(text) for a text that parses
JSONparse(text) ==
    [kind |-> text.kind,
     members |-> ParseMembers(text.members, <<>>),
     expando |-> <<>>]

\* pkg.name = value throws a TypeError (module code is strict): null, number,
\* string, boolean
AssignThrows(pkg) == pkg.kind = "primitive"

\* Faulty variant of SetName: the manifest is rebuilt from the name alone.
SetNameDropsRest(pkg, value) ==
    [pkg EXCEPT !.members = << <<"name", value>> >>]

\* pkg.name = value, fix.js:57
SetName(pkg, value) ==
    IF pkg.kind = "object"
    THEN [pkg EXCEPT !.members = DefineProperty(@, "name", value)]
    ELSE [pkg EXCEPT !.expando = DefineProperty(@, "name", value)]

\* JSON.stringify(pkg, null, 2)
JSONstringify(pkg) ==
    [kind |-> pkg.kind, indent |-> "2", nl |-> 0, members |-> pkg.members]

\* Faulty variant of AppendNewline: the final newline is forgotten.
AppendNoNewline(text) == text

\* `${text}\n`
AppendNewline(text) == [text EXCEPT !.nl = @ + 1]

----------------------------------------------------------------------------
\* fix.js

\* Faulty variant of relativeToWorkshopRoot: the separator after the root stays.
relativeToWorkshopRootKeepsSep(dir) == StrReplace(dir, workshopRoot, <<>>)

\* relativeToWorkshopRoot, fix.js:46
relativeToWorkshopRoot(dir) == StrReplace(dir, workshopRoot \o sep, <<>>)

\* the value assigned to pkg.name, fix.js:57
PkgName(file) == ReplaceSeparators(relativeToWorkshopRoot(file))

Perms(S) ==
    {s \in [1..Cardinality(S) -> S] : \A a, b \in 1..Cardinality(S) : s[a] = s[b] => a = b}

\* the paths of fix.js:14 and fix.js:31, in a listing order
ExampleLists(f) ==
    Perms({here(<<"examples">> \o sep \o dir) : dir \in readDir(f, here(<<"examples">>))})

\* the paths of fix.js:17-19, in a listing order
ExerciseLists(f) ==
    Perms({p \in {here(<<"exercises">> \o sep \o name) :
                     name \in readDir(f, here(<<"exercises">>))} : isDirectory(f, p)})

\* the apps of one exercise, fix.js:23-27, in a listing order
VariantLists(f, exercise) ==
    Perms({pathJoin(exercise, dir) : dir \in {d \in readDir(f, exercise) : IsVariantName(d)}})

\* the flattened lists fix.js:20-30 can produce for the exercises in this order
RECURSIVE ExerciseAppLists(_, _)
ExerciseAppLists(f, exs) ==
    IF exs = <<>> THEN {<<>>}
    ELSE {h \o t : h \in VariantLists(f, Head(exs)), t \in ExerciseAppLists(f, Tail(exs))}

HasPkgJson(f, app) == exists(f, pathJoin(app, <<"package.json">>))

\* Faulty variant of AppsWithPkgJson: no filter.
AppsUnfiltered(f, list) == list

\* the filter of fix.js:36-39
AppsWithPkgJson(f, list) == SelectSeq(list, LAMBDA app : HasPkgJson(f, app))

\* Faulty variant of NextPc: the two calls are swapped.
NextPcMirrorFirst(p) ==
    CASE p = "start" -> "copyTestFiles"
      [] p = "copyTestFiles" -> "updatePkgNames"
      [] p = "updatePkgNames" -> "exit"

\* the top-level sequence of fix.js:50-51
NextPc(p) ==
    CASE p = "start" -> "updatePkgNames"
      [] p = "updatePkgNames" -> "copyTestFiles"
      [] p = "copyTestFiles" -> "exit"

Advance ==
    /\ pc' = NextPc(pc)
    /\ outcome' = IF NextPc(pc) = "exit" THEN "ok" ELSE outcome

\* fix.js:13-39: the module-level lists
Startup ==
    /\ pc = "start" /\ outcome = "running"
    /\ \E exs \in ExampleLists(fs), exApps \in ExampleLists(fs), dirs \in ExerciseLists(fs) :
         \E apps \in ExerciseAppLists(fs, dirs) :
            /\ examples' = exs
            /\ exercises' = dirs
            /\ exerciseApps' = apps
            /\ appsWithPkgJson' = AppsWithPkgJson(fs, exs \o exApps \o apps)
    /\ Advance
    /\ UNCHANGED <<fs, run, i, j, console, log>>

\* Faulty variant of writeIfNeeded: the comparison is forgotten.
writeIfNeededAlways(f, filepath, content) ==
    [fs |-> [f EXCEPT ![filepath] = File(content)],
     written |-> TRUE,
     ops |-> << [op |-> "readFile", path |-> filepath],
                [op |-> "writeFile", path |-> filepath, data |-> content] >>]

\* writeIfNeeded, fix.js:88
writeIfNeeded(f, filepath, content) ==
    LET oldContent == f[filepath].data
    IN  [fs |-> IF oldContent # content THEN [f EXCEPT ![filepath] = File(content)] ELSE f,
         written |-> oldContent # content,
         ops |-> << [op |-> "readFile", path |-> filepath] >> \o
                 (IF oldContent # content
                  THEN << [op |-> "writeFile", path |-> filepath, data |-> content] >>
                  ELSE <<>>)]

\* fs.promises.readFile(p, 'utf8') rejects: no such file, or a directory
ReadFileThrows(f, p) == IF exists(f, p) THEN f[p].type # "file" ELSE TRUE

\* the body of the loop of updatePkgNames throws, fix.js:56-57
BodyThrows(f, file) ==
    LET pkgjsonPath == pathJoin(file, <<"package.json">>)
    IN  IF ReadFileThrows(f, pkgjsonPath) THEN TRUE
        ELSE IF IsSyntaxError(f[pkgjsonPath].data) THEN TRUE
        ELSE AssignThrows(JSONparse(f[pkgjsonPath].data))

\* one iteration of updatePkgNames, fix.js:54-65
UpdatePkgName ==
    /\ pc = "updatePkgNames" /\ outcome = "running"
    /\ i <= Len(appsWithPkgJson)
    /\ ~BodyThrows(fs, appsWithPkgJson[i])
    /\ LET file == appsWithPkgJson[i]
           pkgjsonPath == pathJoin(file, <<"package.json">>)
           pkg == SetName(JSONparse(fs[pkgjsonPath].data), PkgName(file))
           w == writeIfNeeded(fs, pkgjsonPath, AppendNewline(JSONstringify(pkg)))
       IN  /\ fs' = w.fs
           /\ console' = IF w.written THEN Append(console, pkgjsonPath) ELSE console
           /\ log' = log \o << [op |-> "readFile", path |-> pkgjsonPath] >> \o w.ops
    /\ i' = i + 1
    /\ UNCHANGED <<pc, outcome, run, examples, exercises, exerciseApps, appsWithPkgJson, j>>

\* Faulty variant of UpdatePkgNameThrows: the error is swallowed and the
\* loop goes on.
UpdatePkgNameSkips ==
    /\ pc = "updatePkgNames" /\ outcome = "running"
    /\ i <= Len(appsWithPkgJson)
    /\ BodyThrows(fs, appsWithPkgJson[i])
    /\ log' = Append(log, [op |-> "readFile",
                           path |-> pathJoin(appsWithPkgJson[i], <<"package.json">>)])
    /\ i' = i + 1
    /\ UNCHANGED <<fs, pc, outcome, run, examples, exercises, exerciseApps,
                   appsWithPkgJson, j, console>>

\* an iteration of updatePkgNames throws: the top-level await rejects and
\* the process ends, fix.js:50
UpdatePkgNameThrows ==
    /\ pc = "updatePkgNames" /\ outcome = "running"
    /\ i <= Len(appsWithPkgJson)
    /\ BodyThrows(fs, appsWithPkgJson[i])
    /\ log' = Append(log, [op |-> "readFile",
                           path |-> pathJoin(appsWithPkgJson[i], <<"package.json">>)])
    /\ outcome' = "error"
    /\ UNCHANGED <<fs, pc, run, examples, exercises, exerciseApps,
                   appsWithPkgJson, i, j, console>>

\* updatePkgNames returns, fix.js:50
UpdatePkgNamesReturn ==
    /\ pc = "updatePkgNames" /\ outcome = "running"
    /\ i > Len(appsWithPkgJson)
    /\ Advance
    /\ UNCHANGED <<fs, run, examples, exercises, exerciseApps, appsWithPkgJson,
                   i, j, console, log>>

\* the paths one iteration of copyTestFiles works on, fix.js:71-73
solutionAppOf(app) == StrReplace(app, <<"problem">>, <<"solution">>)
testDirOf(app) == pathJoin(solutionAppOf(app), <<"tests">>)
destTestDirOf(app) == pathJoin(app, <<"tests">>)

\* Faulty variant of Copies: the solution's tests directory is not looked for.
CopiesIgnoringTestDir(f, app) == StrIncludes(app, <<"problem">>)

\* whether an iteration of copyTestFiles touches the file system, fix.js:70,75
Copies(f, app) == StrIncludes(app, <<"problem">>) /\ exists(f, testDirOf(app))

\* the file system after the removal of fix.js:77-79
AfterRm(f, app) ==
    IF exists(f, destTestDirOf(app)) THEN rm(f, destTestDirOf(app)) ELSE f

\* the operations of one iteration of copyTestFiles, fix.js:70-84
CopyOps(f, app) ==
    (IF exists(f, destTestDirOf(app))
     THEN << [op |-> "rm", path |-> destTestDirOf(app)] >> ELSE <<>>)
    \o << [op |-> "cp", src |-> testDirOf(app), path |-> destTestDirOf(app)] >>

\* one iteration of copyTestFiles, fix.js:69-85
CopyTestFilesStep ==
    /\ pc = "copyTestFiles" /\ outcome = "running"
    /\ j <= Len(exerciseApps)
    /\ LET app == exerciseApps[j]
       IN  IF Copies(fs, app)
           THEN /\ fs' = cp(AfterRm(fs, app), testDirOf(app), destTestDirOf(app))
                /\ log' = log \o CopyOps(fs, app)
           ELSE UNCHANGED <<fs, log>>
    /\ j' = j + 1
    /\ UNCHANGED <<pc, outcome, run, examples, exercises, exerciseApps,
                   appsWithPkgJson, i, console>>

\* what a rejected rm or cp can leave behind: nothing done, the old tests
\* removed, or the old tests removed and only the new directory made
Partial(f, app) ==
    {f, AfterRm(f, app),
     [q \in DOMAIN AfterRm(f, app) \cup {destTestDirOf(app)} |->
        IF q = destTestDirOf(app) THEN Dir ELSE AfterRm(f, app)[q]]}

\* rm or cp rejects (permission, disk full, ...): the top-level await
\* rejects and the process ends, fix.js:51
CopyTestFilesThrows ==
    /\ pc = "copyTestFiles" /\ outcome = "running"
    /\ j <= Len(exerciseApps)
    /\ Copies(fs, exerciseApps[j])
    /\ fs' \in Partial(fs, exerciseApps[j])
    /\ log' = log \o CopyOps(fs, exerciseApps[j])
    /\ outcome' = "error"
    /\ UNCHANGED <<pc, run, examples, exercises, exerciseApps,
                   appsWithPkgJson, i, j, console>>

\* copyTestFiles returns, fix.js:51
CopyTestFilesReturn ==
    /\ pc = "copyTestFiles" /\ outcome = "running"
    /\ j > Len(exerciseApps)
    /\ Advance
    /\ UNCHANGED <<fs, run, examples, exercises, exerciseApps, appsWithPkgJson,
                   i, j, console, log>>

\* the operator runs the script again on the file system it left
Rerun ==
    /\ outcome # "running"
    /\ run < MaxRuns
    /\ run' = run + 1
    /\ pc' = "start" /\ outcome' = "running"
    /\ examples' = <<>> /\ exercises' = <<>> /\ exerciseApps' = <<>>
    /\ appsWithPkgJson' = <<>>
    /\ i' = 1 /\ j' = 1
    /\ log' = <<>>
    /\ UNCHANGED <<fs, console>>

Next ==
    \/ Startup
    \/ UpdatePkgName
    \/ UpdatePkgNameThrows
    \/ UpdatePkgNamesReturn
    \/ CopyTestFilesStep
    \/ CopyTestFilesThrows
    \/ CopyTestFilesReturn
    \/ Rerun

----------------------------------------------------------------------------
\* The repositories the script is run on

\* the app directories of the repositories explored below
\* examples/app\v2 (a backslash is an ordinary character of a POSIX name)
exampleApp == here(<<"examples", "/", "app", "\\", "v2">>)
\* exercises/01-goo with problem.01-great and solution.01-great
goo == here(<<"exercises", "/", "01-goo">>)
gooProblem == pathJoin(goo, <<"problem", ".", "01-great">>)
gooSolution == pathJoin(goo, <<"solution", ".", "01-great">>)
\* exercises whose own names contain `problem` and `solution`
problemSolving == here(<<"exercises", "/", "01.", "problem", "-solving">>)
solutionSolving == here(<<"exercises", "/", "01.", "solution", "-solving">>)
problemSolvingProblem == pathJoin(problemSolving, <<"01.", "problem">>)
problemSolvingSolution == pathJoin(problemSolving, <<"01.", "solution">>)
solutionSolvingProblem == pathJoin(solutionSolving, <<"01.", "problem">>)
solutionSolvingSolution == pathJoin(solutionSolving, <<"01.", "solution">>)

ProjectDirs ==
    {exampleApp, gooProblem, gooSolution, problemSolvingProblem,
     problemSolvingSolution, solutionSolvingProblem, solutionSolvingSolution}

Manifest(d) == d \o <<"/", "package.json">>

\* the path of d below the workshop root with __sep__ for every slash and
\* backslash, written out
ExpectedName(d) ==
    CASE d = exampleApp -> <<"examples", "__sep__", "app", "__sep__", "v2">>
      [] d = gooProblem ->
            <<"exercises", "__sep__", "01-goo", "__sep__", "problem", ".", "01-great">>
      [] d = gooSolution ->
            <<"exercises", "__sep__", "01-goo", "__sep__", "solution", ".", "01-great">>
      [] d = problemSolvingProblem ->
            <<"exercises", "__sep__", "01.", "problem", "-solving", "__sep__", "01.", "problem">>
      [] d = problemSolvingSolution ->
            <<"exercises", "__sep__", "01.", "problem", "-solving", "__sep__", "01.", "solution">>
      [] d = solutionSolvingProblem ->
            <<"exercises", "__sep__", "01.", "solution", "-solving", "__sep__", "01.", "problem">>
      [] d = solutionSolvingSolution ->
            <<"exercises", "__sep__", "01.", "solution", "-solving", "__sep__", "01.", "solution">>

Raw(bytes) == File([kind |-> "raw", bytes |-> bytes])

\* the tree t placed at path p
Tree(p, t) == [q \in {p \o s : s \in DOMAIN t} |-> t[SubSeq(q, Len(p) + 1, Len(q))]]

NoFiles == [q \in {} |-> Dir]

\* tests/unit.test.js and tests/sub/fixture.json
SolutionTests ==
    (<<>> :> Dir) @@ (<<"/", "unit.test.js">> :> Raw("new unit test"))
    @@ (<<"/", "sub">> :> Dir) @@ (<<"/", "sub", "/", "fixture.json">> :> Raw("fixture"))

\* a stale tests directory: tests/old.test.js and an older tests/unit.test.js
StaleTests ==
    (<<>> :> Dir) @@ (<<"/", "old.test.js">> :> Raw("old test"))
    @@ (<<"/", "unit.test.js">> :> Raw("old unit test"))

RECURSIVE SeqsUpTo(_, _)
SeqsUpTo(S, n) ==
    IF n = 0 THEN {<<>>}
    ELSE SeqsUpTo(S, n - 1) \cup
         {Append(s, x) : s \in {t \in SeqsUpTo(S, n - 1) : Len(t) = n - 1}, x \in S}

Canonical(kind, members) == [kind |-> kind, indent |-> "2", nl |-> 1, members |-> members]

\* package.json texts of every shape, for an app whose name should be n
ManifestTexts(n) ==
    [kind : {"object"}, indent : {"2", "tab"}, nl : {0, 1},
     members : SeqsUpTo({<<"name", n>>, <<"name", <<"x">>>>,
                         <<"dependencies", <<"{a:1.0.0}">>>>,
                         <<"dependencies", <<"{a:2.0.0}">>>>}, MaxFields)]
    \cup {Canonical("array", <<>>), [Canonical("array", <<>>) EXCEPT !.nl = 0],
          Canonical("primitive", <<>>), Canonical("invalid", <<>>)}

\* a few package.json texts
FewManifestTexts(n) ==
    {Canonical("object", << <<"name", n>>, <<"dependencies", <<"{a:1.0.0}">>>> >>),
     Canonical("object", << <<"name", <<"x">>>>, <<"dependencies", <<"{a:1.0.0}">>>> >>),
     Canonical("invalid", <<>>)}

\* the app directories at `app`: with or without a package.json drawn from
\* nodes, with or without a tests directory drawn from trees
AppDirs(app, nodes, trees) ==
    {(app :> Dir) @@ m @@ t :
        m \in {NoFiles} \cup {pathJoin(app, <<"package.json">>) :> x : x \in nodes},
        t \in {NoFiles} \cup {Tree(pathJoin(app, <<"tests">>), x) : x \in trees}}

Files(texts) == {File(x) : x \in texts}

\* no examples directory, or examples/ with one app
ExampleDirs(nodes) ==
    {NoFiles} \cup
    {(here(<<"examples">>) :> Dir) @@ a : a \in AppDirs(exampleApp, nodes, {})}

\* Repositories with one exercise and one example.  The problem app's
\* package.json ranges over every text, a directory in its place included.
NamingRepos ==
    {(workshopRoot :> Dir) @@ (here(<<"exercises">>) :> Dir)
     @@ (here(<<"exercises", "/", "README.mdx">>) :> Raw("readme"))
     @@ (goo :> Dir) @@ (pathJoin(goo, <<"README.mdx">>) :> Raw("readme"))
     @@ e @@ p @@ s :
        e \in ExampleDirs(Files(FewManifestTexts(ExpectedName(exampleApp)))),
        p \in AppDirs(gooProblem, Files(ManifestTexts(ExpectedName(gooProblem))) \cup {Dir},
                      {StaleTests}),
        s \in AppDirs(gooSolution,
                      {File(Canonical("object", << <<"name", ExpectedName(gooSolution)>> >>))},
                      {SolutionTests})}

GoodManifest(app) ==
    pathJoin(app, <<"package.json">>) :>
        File(Canonical("object", << <<"name", ExpectedName(app)>> >>))

\* an app directory that may also be absent: its package.json is one of
\* manifests, its tests directory is absent, fresh or stale
MaybeApp(app, manifests) ==
    {NoFiles} \cup
    {(app :> Dir) @@ m @@ t :
        m \in manifests,
        t \in {NoFiles} \cup {Tree(pathJoin(app, <<"tests">>), x) :
                                 x \in {SolutionTests, StaleTests}}}

\* Repositories with two exercises of two apps each, or without exercises/
MirrorRepos ==
    {(workshopRoot :> Dir) @@ e @@ x :
        e \in ExampleDirs({File(Canonical("object", << <<"name", ExpectedName(exampleApp)>> >>)),
                           File(Canonical("invalid", <<>>))}),
        x \in {NoFiles} \cup
              {(here(<<"exercises">>) :> Dir) @@ (problemSolving :> Dir)
               @@ (solutionSolving :> Dir) @@ a @@ b @@ c @@ d :
                  a \in MaybeApp(problemSolvingProblem,
                                 {GoodManifest(problemSolvingProblem)}),
                  b \in MaybeApp(problemSolvingSolution,
                                 {GoodManifest(problemSolvingSolution)}),
                  c \in MaybeApp(solutionSolvingProblem,
                                 {NoFiles, GoodManifest(solutionSolvingProblem)}),
                  d \in MaybeApp(solutionSolvingSolution, {NoFiles})}}

InitProgram ==
    /\ pc = "start" /\ outcome = "running" /\ run = 1
    /\ examples = <<>> /\ exercises = <<>> /\ exerciseApps = <<>>
    /\ appsWithPkgJson = <<>>
    /\ i = 1 /\ j = 1
    /\ console = <<>> /\ log = <<>>

Init == fs \in NamingRepos /\ InitProgram

InitMirror == fs \in MirrorRepos /\ InitProgram

Spec == Init /\ [][Next]_vars

SpecMirror == InitMirror /\ [][Next]_vars

----------------------------------------------------------------------------
\* Properties

\* how a reader of the text sees its members: the keys, and for each key the
\* value of its last occurrence
Keys(text) == {text.members[k][1] : k \in 1..Len(text.members)}
ValueOf(text, key) ==
    text.members[CHOOSE k \in 1..Len(text.members) :
                    /\ text.members[k][1] = key
                    /\ \A m \in (k + 1)..Len(text.members) : text.members[m][1] # key][2]
OtherFields(text) == [key \in Keys(text) \ {"name"} |-> ValueOf(text, key)]

IsFile(f, p) == p \in DOMAIN f /\ f[p].type = "file"
HasName(text, n) ==
    text.kind = "object" /\ "name" \in Keys(text) /\ ValueOf(text, "name") = n

\* the text is what the script itself would write for an app named n
IsSerialized(text, n) ==
    /\ text.indent = "2" /\ text.nl = 1
    /\ \A a, b \in 1..Len(text.members) : text.members[a][1] = text.members[b][1] => a = b
    /\ text.kind = "object" => HasName(text, n)

Ops(kinds) == {k \in 1..Len(log) : log[k].op \in kinds}

\* the namer is about to process app number i, whose package.json is a file
\* holding a JSON object or array
Naming(d) ==
    /\ pc = "updatePkgNames" /\ outcome = "running"
    /\ i <= Len(appsWithPkgJson) /\ appsWithPkgJson[i] = d
    /\ IsFile(fs, Manifest(d)) /\ fs[Manifest(d)].data.kind \in {"object", "array"}

\* C1: naming is idempotent.  In a run that follows another run, the pass
\* over the package.json files writes nothing, leaves every file as it is
\* and prints nothing; over all runs, no package.json is reported as updated
\* twice.
C1_NamingIdempotent ==
    [][/\ (run > 1 /\ pc = "updatePkgNames")
            => /\ fs' = fs
               /\ console' = console
               /\ \A k \in 1..Len(log') : log'[k].op # "writeFile"
       /\ \A a, b \in 1..Len(console') : console'[a] = console'[b] => a = b]_vars

\* C1, reached: the first run rewrote the problem app's package.json and the
\* second run has gone over every package.json again.
C1_Witness ==
    /\ run = 2 /\ pc = "updatePkgNames" /\ i > Len(appsWithPkgJson)
    /\ \E k \in 1..Len(console) : console[k] = Manifest(gooProblem)
    /\ \E k \in 1..Len(appsWithPkgJson) : appsWithPkgJson[k] = gooProblem

C3_FieldPreservation ==
    [][\A d \in ProjectDirs :
          IsFile(fs, Manifest(d)) =>
             /\ IsFile(fs', Manifest(d))
             /\ OtherFields(fs'[Manifest(d)].data) = OtherFields(fs[Manifest(d)].data)]_vars

\* C3, reached: the package.json of problem.01-great was rewritten and
\* holds both a name and dependencies.
C3_Witness ==
    /\ \E k \in 1..Len(console) : console[k] = Manifest(gooProblem)
    /\ Keys(fs[Manifest(gooProblem)].data) = {"name", "dependencies"}

\* the package.json of app number i cannot be read or does not parse
ManifestBroken ==
    /\ pc = "updatePkgNames" /\ outcome = "running"
    /\ i <= Len(appsWithPkgJson)
    /\ LET p == Manifest(appsWithPkgJson[i])
       IN  IF IsFile(fs, p) THEN fs[p].data.kind = "invalid" ELSE TRUE

\* C7: fail fast, no rollback.  When the package.json of the app at hand
\* cannot be read or parsed, the run ends in error there and the file system
\* stays as the earlier apps left it; once a run has ended in error nothing
\* else happens in it (no later package.json is read or written, no tests
\* directory is removed or copied): the only step left is a new run, on the
\* same file system.
C7_FailFast ==
    [][/\ ManifestBroken
            => outcome' = "error" /\ fs' = fs /\ i' = i /\ console' = console
       /\ outcome = "error" => (run' = run + 1 /\ fs' = fs)
       /\ (outcome' = "error" /\ pc' = "updatePkgNames" /\ run' = run)
            => /\ Ops({"rm", "cp"}) = {}
               /\ \A k \in 1..Len(log) :
                     log[k].op = "writeFile" => fs'[log[k].path] = File(log[k].data)]_vars

\* C7, reached: the first run ended in error at a package.json after an
\* earlier one had been rewritten, with apps still to come.
C7_Witness ==
    /\ outcome = "error" /\ pc = "updatePkgNames" /\ run = 1
    /\ Ops({"writeFile"}) # {}
    /\ i < Len(appsWithPkgJson)

C4_AsStated ==
    outcome = "ok" =>
        \A k \in 1..Len(exerciseApps) :
            LET app == exerciseApps[k]
            IN  (StrIncludes(app, <<"problem">>) /\ exists(fs, testDirOf(app)))
                    => Subtree(fs, destTestDirOf(app)) = Subtree(fs, testDirOf(app))

C6_NamingBeforeMirror ==
    /\ \A a \in Ops({"rm", "cp"}) : \A b \in Ops({"readFile", "writeFile"}) : b < a
    /\ (pc = "copyTestFiles" \/ Ops({"rm", "cp"}) # {}) => i > Len(appsWithPkgJson)

\* C6, reached: a run ended in error while mirroring, after package.json
\* files had been rewritten.
C6_Witness ==
    /\ outcome = "error" /\ pc = "copyTestFiles"
    /\ Ops({"writeFile"}) # {} /\ Ops({"rm"}) # {}

\* C9 as stated: no tests directory is removed or copied inside an app
\* directory that has no package.json.
C9_AsStated ==
    \A k \in Ops({"rm", "cp"}) : exists(fs, Manifest(dirname(log[k].path)))

\* C9, amended: an app directory without a package.json is skipped by the
\* namer only: no package.json is read or written where none exists and none
\* is ever created.  copyTestFiles does not use that filter and still
\* replaces the tests directory of such an app.
C9_NamerSkipsAppsWithoutManifest ==
    [][/\ \A d \in ProjectDirs : Manifest(d) \in DOMAIN fs' => Manifest(d) \in DOMAIN fs
       /\ \A k \in 1..Len(log') :
             log'[k].op \in {"readFile", "writeFile"} => log'[k].path \in DOMAIN fs]_vars

\* C9, reached: the namer went over the apps with a package.json, and the
\* tests directory of 01.solution-solving/01.problem, which has none, was
\* replaced.
C9_Witness ==
    /\ Ops({"readFile"}) # {}
    /\ ~exists(fs, Manifest(solutionSolvingProblem))
    /\ \E k \in Ops({"cp"}) : log[k].path = destTestDirOf(solutionSolvingProblem)
    /\ \A k \in Ops({"readFile"}) : log[k].path # Manifest(solutionSolvingProblem)

\* C10 as stated: a tests directory is removed or written only inside an app
\* whose own directory name contains `problem`, and what is copied into it
\* is the tests directory of the app of the same exercise whose name is the
\* problem app's name with `solution` for `problem`.
C10_AsStated ==
    \A k \in Ops({"rm", "cp"}) :
        LET app == dirname(log[k].path)
        IN  /\ StrIncludes(basename(app), <<"problem">>)
            /\ log[k].op = "cp" =>
                  log[k].src = pathJoin(pathJoin(dirname(app),
                                                 StrReplace(basename(app), <<"problem">>,
                                                            <<"solution">>)),
                                        <<"tests">>)

====
